---- MODULE Spec2Model ----
(***************************************************************************)
(* Model of the Janet back end of pegen (src/pegen/janet_generator.py) and *)
(* of the build driver (src/pegen/build.py).                               *)
(*                                                                         *)
(* Text is a sequence of tokens (strings); joining the tokens gives the    *)
(* text the program builds.  Quote characters, commas and parentheses that *)
(* the code tests for are tokens of their own.  A rule or variable name is *)
(* a sequence of segments, cut where the code tests a prefix or a suffix.  *)
(* Grammar nodes live in an arena and are identified by their index, which *)
(* stands for Python object identity.                                      *)
(***************************************************************************)
EXTENDS Integers, Sequences, FiniteSets, TLC

\* ------------------------------------------------------------------ bounds
MaxRules == 2      \* authored rules per grammar
MaxPos == 2        \* tokens of input available to an emitted function
MaxIter == 2       \* iterations of an emitted loop that are followed

\* ------------------------------------------------------------ text helpers
None == <<>>

\* the characters the code tests for, as tokens
SQ == "<'>"
DQ == "<dq>"
BS == "<bs>"
BT == "<bt>"

Range(s) == {s[i] : i \in DOMAIN s}

Last(s) == s[Len(s)]

RECURSIVE Flatten(_)
Flatten(ss) == IF ss = <<>> THEN <<>> ELSE Head(ss) \o Flatten(Tail(ss))

\* sep.join(parts) for sequences of token sequences
RECURSIVE Join(_, _)
Join(sep, parts) ==
  IF parts = <<>> THEN <<>>
  ELSE IF Len(parts) = 1 THEN parts[1]
  ELSE parts[1] \o sep \o Join(sep, Tail(parts))

\* text.replace(old, new) where old is one token
RECURSIVE Replace(_, _, _)
Replace(text, old, new) ==
  IF text = <<>> THEN <<>>
  ELSE (IF Head(text) = old THEN new ELSE <<Head(text)>>) \o Replace(Tail(text), old, new)

\* character order used by sorted(): code points of the characters in use
Ord(c) ==
  CASE c = SQ -> 39 [] c = DQ -> 34 [] c = "+" -> 43 [] c = "," -> 44
    [] c = "_" -> 95 [] c = "a" -> 97 [] c = "c" -> 99 [] c = "f" -> 102
    [] c = "h" -> 104 [] c = "i" -> 105 [] c = "m" -> 109 [] c = "t" -> 116
    [] c = "x" -> 120 [] c = "y" -> 121 [] c = "1" -> 49 [] OTHER -> 0

Letters == {"a", "c", "f", "h", "i", "m", "t", "x", "y"}
Digits == {"1"}

RECURSIVE StrLess(_, _)
StrLess(a, b) ==
  IF a = <<>> THEN b # <<>>
  ELSE IF b = <<>> THEN FALSE
  ELSE IF Ord(Head(a)) # Ord(Head(b)) THEN Ord(Head(a)) < Ord(Head(b))
  ELSE StrLess(Tail(a), Tail(b))

\* sorted(set_of_strings)
RECURSIVE Sorted(_)
Sorted(S) ==
  IF S = {} THEN <<>>
  ELSE LET m == CHOOSE x \in S : \A y \in S \ {x} : StrLess(x, y)
       IN <<m>> \o Sorted(S \ {m})

\* ast.literal_eval of a quoted literal without escapes: drop the quotes
literal_eval(v) == SubSeq(v, 2, Len(v) - 1)

\* re.match of the identifier pattern [a-zA-Z_] followed by word characters
IsIdentifier(val) ==
  /\ Len(val) >= 1
  /\ val[1] \in Letters \cup {"_"}
  /\ \A i \in 2..Len(val) : val[i] \in Letters \cup Digits \cup {"_"}

\* str(JanetLiteralExpr(s)) for a string s
escape(s) ==
  IF BS \notin Range(s) /\ DQ \notin Range(s)
  THEN <<DQ>> \o s \o <<DQ>>
  ELSE LET n == Cardinality({i \in DOMAIN s : s[i] = BT}) + 1
           ticks == [i \in 1..n |-> BT]
       IN ticks \o s \o ticks

LowerOf == [NAME |-> "name", NUMBER |-> "number", STRING |-> "string", OP |-> "op",
            TYPE_COMMENT |-> "type_comment", NEWLINE |-> "newline", DEDENT |-> "dedent",
            INDENT |-> "indent", ENDMARKER |-> "endmarker", ASYNC |-> "async",
            AWAIT |-> "await"]

\* --------------------------------------------------------- grammar (arena)
Node(k, v, n, s, a) == [kind |-> k, value |-> v, node |-> n, sep |-> s, alts |-> a]
NameLeaf(v) == Node("NameLeaf", v, 0, 0, <<>>)
StringLeaf(v) == Node("StringLeaf", v, 0, 0, <<>>)
Group(r) == Node("Group", <<>>, r, 0, <<>>)
Opt(n) == Node("Opt", <<>>, n, 0, <<>>)
Repeat0(n) == Node("Repeat0", <<>>, n, 0, <<>>)
Repeat1(n) == Node("Repeat1", <<>>, n, 0, <<>>)
Gather(s, n) == Node("Gather", <<>>, n, s, <<>>)
PositiveLookahead(n) == Node("PositiveLookahead", <<>>, n, 0, <<>>)
NegativeLookahead(n) == Node("NegativeLookahead", <<>>, n, 0, <<>>)
Forced(n) == Node("Forced", <<>>, n, 0, <<>>)
Cut == Node("Cut", <<>>, 0, 0, <<>>)
Rhs(a) == Node("Rhs", <<>>, 0, 0, a)

\* NamedItem: item is an arena index, or 0 for a NameLeaf built on the fly
NamedItem(nm, i) == [name |-> nm, item |-> i, leaf |-> <<>>]
NamedLeaf(nm, v) == [name |-> nm, item |-> 0, leaf |-> v]
Alt(items, action) == [items |-> items, action |-> action]
U(i) == NamedItem(None, i)

Arena == <<
  \* start: NAME '+' NUMBER
  NameLeaf(<<"NAME">>), StringLeaf(<<SQ, "+", SQ>>), NameLeaf(<<"NUMBER">>),
  \* kw: 'if' ~ cond "if" | "match" x=NEWLINE
  StringLeaf(<<SQ, "i", "f", SQ>>), Cut, NameLeaf(<<"cond">>),
  StringLeaf(<<DQ, "i", "f", DQ>>), StringLeaf(<<DQ, "m", "a", "t", "c", "h", DQ>>),
  NameLeaf(<<"NEWLINE">>),
  \* seq: ','.(a | b)+ [c*] d+
  StringLeaf(<<SQ, ",", SQ>>), NameLeaf(<<"a">>), NameLeaf(<<"b">>),
  Rhs(<<Alt(<<U(11)>>, None), Alt(<<U(12)>>, None)>>), Group(13), Gather(10, 14),
  NameLeaf(<<"c">>), Repeat0(16), Opt(17), NameLeaf(<<"d">>), Repeat1(19),
  \* grp: (a b | c) &'x' y=(d) { mk(y) }
  NameLeaf(<<"a">>), NameLeaf(<<"b">>), NameLeaf(<<"c">>),
  Rhs(<<Alt(<<U(21), U(22)>>, None), Alt(<<U(23)>>, None)>>), Group(24),
  StringLeaf(<<SQ, "x", SQ>>), PositiveLookahead(26),
  NameLeaf(<<"d">>), Rhs(<<Alt(<<U(28)>>, None)>>), Group(29),
  \* inv: a ~ invalid_b | c
  NameLeaf(<<"a">>), Cut, NameLeaf(<<"invalid", "_b">>), NameLeaf(<<"c">>),
  \* t_without_invalid: a ~ b { mk(LOCATIONS) } | [e] NAME NAME
  NameLeaf(<<"a">>), Cut, NameLeaf(<<"b">>), NameLeaf(<<"e">>), Opt(38),
  NameLeaf(<<"NAME">>), NameLeaf(<<"NAME">>),
  \* frc: !(e | f) &&'y' &&(g h) 'if'
  NameLeaf(<<"e">>), NameLeaf(<<"f">>),
  Rhs(<<Alt(<<U(42)>>, None), Alt(<<U(43)>>, None)>>), Group(44), NegativeLookahead(45),
  StringLeaf(<<SQ, "y", SQ>>), Forced(47),
  NameLeaf(<<"g">>), NameLeaf(<<"h">>), Rhs(<<Alt(<<U(49), U(50)>>, None)>>), Group(51),
  Forced(52), StringLeaf(<<SQ, "i", "f", SQ>>),
  \* la: &(c*)
  NameLeaf(<<"c">>), Repeat0(55), Rhs(<<Alt(<<U(56)>>, None)>>), Group(57),
  PositiveLookahead(58),
  \* rep: invalid_b* | c
  NameLeaf(<<"invalid", "_b">>), Repeat0(60), NameLeaf(<<"c">>)
>>

NodeIds == DOMAIN Arena

\* Rule(name, type, rhs); rhsId is the arena index of rhs when rhs is an arena node
Rule(nm, alts, rid) ==
  [name |-> nm, alts |-> alts, rhsId |-> rid, left_recursive |-> FALSE, leader |-> FALSE]

Pool == <<
  Rule(<<"start">>, <<Alt(<<U(1), U(2), U(3)>>, None)>>, 0),
  Rule(<<"kw">>, <<Alt(<<U(4), U(5), U(6), U(7)>>, None),
                   Alt(<<U(8), NamedItem(<<"x">>, 9)>>, None)>>, 0),
  Rule(<<"seq">>, <<Alt(<<U(15), U(18), U(20)>>, None)>>, 0),
  Rule(<<"grp">>, <<Alt(<<U(25), U(27), NamedItem(<<"y">>, 30)>>, <<"mk(", "y", ")">>)>>, 0),
  Rule(<<"inv">>, <<Alt(<<U(31), U(32), U(33)>>, None), Alt(<<U(34)>>, None)>>, 0),
  Rule(<<"t_", "without_invalid">>,
       <<Alt(<<U(35), U(36), U(37)>>, <<"mk(", "LOCATIONS", ")">>),
         Alt(<<U(39), U(40), U(41)>>, None)>>, 0),
  Rule(<<"frc">>, <<Alt(<<U(46), U(48), U(53), U(54)>>, None)>>, 0),
  Rule(<<"la">>, <<Alt(<<U(59)>>, None)>>, 0),
  Rule(<<"rep">>, <<Alt(<<U(61)>>, None), Alt(<<U(62)>>, None)>>, 0)
>>

\* ------------------------------------------------- ParserGenerator helpers
\* Generator state threaded through the visitors:
\*   todo      the worklist, an insertion-ordered dict, as a sequence of rules
\*   counter   the counter of synthetic names
\*   cache, keywords, soft_keywords   the call maker's fields
\*   cleanup   the generator's cleanup_statements
\*   out       the functions printed so far
\*   err       an exception was raised (the run is aborted)
\*   enq       history: the rules in the order they entered the worklist
\*   made      history: nodes for which a synthetic rule was created, in order
InitSt(rules) ==
  [todo |-> rules, counter |-> 0, cache |-> <<>>, keywords |-> {}, soft_keywords |-> {},
   cleanup |-> <<>>, out |-> <<>>,
   err |-> FALSE, enq |-> rules, made |-> <<>>]

\* self.todo[name] = rule, for a name not yet in the dict
Enqueue(st, rule) ==
  [st EXCEPT !.todo = Append(@, rule), !.enq = Append(@, rule)]

name_node(rhsId, st) ==
  LET c == st.counter + 1
      name == <<"_tmp_", ToString(c)>>
      s1 == [st EXCEPT !.counter = c, !.made = Append(@, rhsId)]
  IN [name |-> name, st |-> Enqueue(s1, Rule(name, Arena[rhsId].alts, rhsId))]

name_loop(nodeId, is_repeat1, by, st) ==
  LET c == st.counter + 1
      name == <<(IF is_repeat1 THEN "_loop1_" ELSE "_loop0_"), ToString(c)>>
      s1 == [st EXCEPT !.counter = c, !.made = Append(@, by)]
  IN [name |-> name, st |-> Enqueue(s1, Rule(name, <<Alt(<<U(nodeId)>>, None)>>, 0))]

name_gather(gatherId, st) ==
  LET c == st.counter + 1
      name == <<"_gather_", ToString(c)>>
      extra == <<"_loop0_", ToString(c + 1)>>
      g == Arena[gatherId]
      s1 == [st EXCEPT !.counter = c + 1, !.made = Append(@, gatherId)]
      s2 == Enqueue(s1, Rule(extra,
              <<Alt(<<U(g.sep), NamedItem(<<"elem">>, g.node)>>, <<"elem">>)>>, 0))
      s3 == Enqueue(s2, Rule(name,
              <<Alt(<<NamedItem(<<"elem">>, g.node), NamedLeaf(<<"seq">>, extra)>>, None)>>, 0))
  IN [name |-> name, st |-> s3]

is_loop(rule) == rule.name[1] \in {"_loop0_", "_loop1_"}
is_gather(rule) == rule.name[1] = "_gather_"

\* ---------------------------------------------------- JanetCallMakerVisitor
Res(n, c, st) == [name |-> n, call |-> c, st |-> st]

InCache(id, st) == id \in DOMAIN st.cache

CachePut(st, id, n, c) ==
  [st EXCEPT !.cache = [k \in DOMAIN st.cache \cup {id} |->
                          IF k = id THEN [name |-> n, call |-> c] ELSE st.cache[k]]]

SelfCall(name) == <<"(", "self ">> \o name \o <<")">>

visit_NameLeaf(value, st) ==
  IF value = <<"SOFT_KEYWORD">> THEN Res(<<"soft_keyword">>, SelfCall(<<"soft_keyword">>), st)
  ELSE IF value \in {<<"NAME">>, <<"NUMBER">>, <<"STRING">>, <<"OP">>, <<"TYPE_COMMENT">>}
  THEN Res(<<LowerOf[value[1]]>>, SelfCall(<<LowerOf[value[1]]>>), st)
  ELSE IF value \in {<<"NEWLINE">>, <<"DEDENT">>, <<"INDENT">>, <<"ENDMARKER">>,
                     <<"ASYNC">>, <<"AWAIT">>}
  THEN Res(<<"_", LowerOf[value[1]]>>, <<"(", "self expect ">> \o escape(value) \o <<")">>, st)
  ELSE Res(value, SelfCall(value), st)

visit_StringLeaf(value, st) ==
  LET val == literal_eval(value)
      s1 == IF IsIdentifier(val)
            THEN IF Last(value) = SQ
                 THEN [st EXCEPT !.keywords = @ \cup {val}]
                 ELSE [st EXCEPT !.soft_keywords = @ \cup {val}]
            ELSE st
  IN Res(<<"literal">>, <<"(", "expect ">> \o escape(value) \o <<")">>, s1)

\* call.split("(", 1), the assertion on the tail, and tail[:-1]
FirstParen(call) ==
  IF "(" \in Range(call) THEN CHOOSE i \in DOMAIN call :
       call[i] = "(" /\ \A j \in 1..(i - 1) : call[j] # "(" ELSE 0

lookahead_call_helper(r) ==
  LET i == FirstParen(r.call)
      head == SubSeq(r.call, 1, i - 1)
      tail == SubSeq(r.call, i + 1, Len(r.call))
      ok == i # 0 /\ tail # <<>> /\ Last(tail) = ")"
  IN [head |-> IF ok THEN head ELSE <<>>,
      tail |-> IF ok THEN SubSeq(tail, 1, Len(tail) - 1) ELSE <<>>,
      st |-> IF ok THEN r.st ELSE [r.st EXCEPT !.err = TRUE]]

\* visit_PositiveLookahead / visit_NegativeLookahead, from the split call
Lookahead(fn, h) ==
  Res(None, <<"(", fn>> \o h.head \o <<" ">> \o h.tail \o <<")">>, h.st)

\* visit_Opt appending the separator without looking at the call
visit_Opt_always(r) == Res(<<"opt">>, r.call \o <<",">>, r.st)

visit_Opt(r) ==
  IF r.call # <<>> /\ Last(r.call) = ","
  THEN Res(<<"opt">>, r.call, r.st)
  ELSE Res(<<"opt">>, r.call \o <<",">>, r.st)

\* the name of a NamedItem replaces the name its item returned
Named(item, r) == IF item.name # None THEN Res(item.name, r.call, r.st) ELSE r

\* self.cache[node] = (name, call); return name, call
Cached(id, r) == Res(r.name, r.call, CachePut(r.st, id, r.name, r.call))

\* the call "(self name)" of a synthetic rule, followed by suffix
CallOf(n, suffix) == Res(n.name, SelfCall(n.name) \o suffix, n.st)

RECURSIVE CallVisit(_, _)
\* callmakervisitor.visit(NamedItem)
CallVisitNamed(item, st) ==
  Named(item, IF item.item = 0 THEN visit_NameLeaf(item.leaf, st)
              ELSE CallVisit(item.item, st))

\* visit_Rhs without the cache lookup
visit_Rhs_nocache(id, st) ==
  LET node == Arena[id] IN
  IF Len(node.alts) = 1 /\ Len(node.alts[1].items) = 1
  THEN Cached(id, CallVisitNamed(node.alts[1].items[1], st))
  ELSE Cached(id, CallOf(name_node(id, st), <<>>))

visit_Rhs(id, st) ==
  LET node == Arena[id] IN
  IF InCache(id, st) THEN Res(st.cache[id].name, st.cache[id].call, st)
  ELSE IF Len(node.alts) = 1 /\ Len(node.alts[1].items) = 1
  THEN Cached(id, CallVisitNamed(node.alts[1].items[1], st))
  ELSE Cached(id, CallOf(name_node(id, st), <<>>))

visit_Repeat0(id, st) ==
  IF InCache(id, st) THEN Res(st.cache[id].name, st.cache[id].call, st)
  ELSE Cached(id, CallOf(name_loop(Arena[id].node, FALSE, id, st), <<",">>))

visit_Repeat1(id, st) ==
  IF InCache(id, st) THEN Res(st.cache[id].name, st.cache[id].call, st)
  ELSE Cached(id, CallOf(name_loop(Arena[id].node, TRUE, id, st), <<>>))

visit_Gather(id, st) ==
  IF InCache(id, st) THEN Res(st.cache[id].name, st.cache[id].call, st)
  ELSE Cached(id, CallOf(name_gather(id, st), <<>>))

\* the call of a forced group, from the call of its rhs
ForcedGroup(rhsId, r) ==
  Res(<<"forced">>,
      <<"(", "self expect_forced ">> \o escape(r.call)
         \o <<" ", "<4bt>(", "str(rhs)", ToString(rhsId), ")<4bt>", ")">>, r.st)

visit_Forced(id, st) ==
  LET inner == Arena[Arena[id].node] IN
  IF inner.kind = "Group"
  THEN ForcedGroup(inner.node, CallVisit(inner.node, st))
  ELSE Res(<<"forced">>,
           <<"(", "self expect_forced ", "(", "self expect ">> \o escape(inner.value)
              \o <<")", " ">> \o escape(inner.value) \o <<")">>, st)

CallVisit(id, st) ==
  LET node == Arena[id] k == node.kind IN
  CASE k = "NameLeaf" -> visit_NameLeaf(node.value, st)
    [] k = "StringLeaf" -> visit_StringLeaf(node.value, st)
    [] k = "Rhs" -> visit_Rhs(id, st)
    [] k = "Group" -> CallVisit(node.node, st)
    [] k = "Opt" -> visit_Opt(CallVisit(node.node, st))
    [] k = "Repeat0" -> visit_Repeat0(id, st)
    [] k = "Repeat1" -> visit_Repeat1(id, st)
    [] k = "Gather" -> visit_Gather(id, st)
    [] k = "PositiveLookahead" ->
         Lookahead("self positive_lookahead ", lookahead_call_helper(CallVisit(node.node, st)))
    [] k = "NegativeLookahead" ->
         Lookahead("self negative_lookahead ", lookahead_call_helper(CallVisit(node.node, st)))
    [] k = "Cut" -> Res(<<"cut">>, <<"true">>, st)
    [] k = "Forced" -> visit_Forced(id, st)

\* ------------------------------------------------------ InvalidNodeVisitor
RECURSIVE InvalidVisit(_)
InvalidAlt(alt) ==
  \E i \in DOMAIN alt.items :
     IF alt.items[i].item = 0 THEN alt.items[i].leaf[1] = "invalid"
     ELSE InvalidVisit(alt.items[i].item)

InvalidVisit(id) ==
  LET node == Arena[id] k == node.kind IN
  CASE k = "NameLeaf" -> node.value[1] = "invalid"
    [] k = "StringLeaf" -> FALSE
    [] k = "Rhs" -> \E i \in DOMAIN node.alts : InvalidAlt(node.alts[i])
    [] k \in {"Group", "Opt", "Gather", "Forced", "PositiveLookahead", "NegativeLookahead"} ->
         InvalidVisit(node.node)
    [] k = "Cut" -> FALSE
    \* the class defines visit_Repeat only; Repeat0 and Repeat1 nodes are not
    \* dispatched to it and yield no true result
    [] k \in {"Repeat0", "Repeat1"} -> FALSE

\* ----------------------------------------------------- JanetParserGenerator
\* An emitted function is a sequence of statements; the structure is the one
\* the generator gives it with indent(): a "when"/"while" statement owns the
\* conditions printed between "(when (and " and ")", and the statements
\* printed in the indented block after it.
Stmt(op, text, conds, body) == [op |-> op, text |-> text, conds |-> conds, body |-> body]
Simple(op) == Stmt(op, None, <<>>, <<>>)
\* one printed condition: "(self :call_invalid_rules)", "(var name call)" or "(call)",
\* wrapped in "(not (nil? " "))" in a gather
Cond(kind, name, call, notnil) == [kind |-> kind, name |-> name, call |-> call, notnil |-> notnil]

unreachable_formatting == <<"None  # pragma: no cover">>
location_formatting ==
  <<"{:lineno start_lineno :cool_offset start_col_offset :end_lineno end_lineno :end_col_offset end_col_offset}">>
RestoreStmt == <<"(set self :call_invalid_rules _prev_call_invalid)">>

\* ParserGenerator.dedupe: first of name, name_1, name_2, ... not yet a local
RECURSIVE DedupeFrom(_, _, _)
DedupeFrom(orig, k, locals) ==
  LET name == IF k = 0 THEN orig ELSE orig \o <<"_", ToString(k)>>
  IN IF name \in Range(locals) THEN DedupeFrom(orig, k + 1, locals) ELSE name

dedupe(name, locals) == DedupeFrom(name, 0, locals)

\* acc = [st, locals, conds]
\* the condition printed for an item, r being what the call maker returned
PrintItem(item, unreachable, gather, acc, r) ==
  LET name == IF unreachable THEN None
              ELSE IF item.name # None THEN item.name ELSE r.name
  IN IF name = None
     THEN [st |-> r.st, locals |-> acc.locals,
           conds |-> Append(acc.conds, Cond("item", None, r.call, gather))]
     ELSE IF name = <<"cut">>
     THEN [st |-> r.st, locals |-> acc.locals,
           conds |-> Append(acc.conds, Cond("item", name, r.call, gather))]
     ELSE LET d == dedupe(name, acc.locals)
          IN [st |-> r.st, locals |-> Append(acc.locals, d),
              conds |-> Append(acc.conds, Cond("item", d, r.call, gather))]

visit_NamedItem(item, unreachable, gather, acc) ==
  PrintItem(item, unreachable, gather, acc,
            IF item.item = 0 THEN visit_NameLeaf(item.leaf, acc.st)
            ELSE CallVisit(item.item, acc.st))

RECURSIVE VisitItems(_, _, _, _)
VisitItems(items, unreachable, gather, acc) ==
  IF items = <<>> THEN acc
  ELSE VisitItems(Tail(items), unreachable, gather,
                  visit_NamedItem(Head(items), unreachable, gather, acc))

add_return(ret_val, cleanup) ==
  [i \in DOMAIN cleanup |-> Stmt("cleanup", cleanup[i], <<>>, <<>>)]
    \o <<Stmt("return", ret_val, <<>>, <<>>)>>

\* the default action that always builds a list
DefaultAction_list(gather, locals) ==
  IF gather THEN <<"[">> \o locals[1] \o <<"] + ">> \o locals[2]
  ELSE <<"[">> \o Join(<<", ">>, locals) \o <<"]">>

\* the default action print_action builds when the alternative has none
DefaultAction(gather, locals) ==
  IF gather THEN <<"[">> \o locals[1] \o <<"] + ">> \o locals[2]
  ELSE IF Len(locals) = 1 THEN locals[1]
  ELSE <<"[">> \o Join(<<", ">>, locals) \o <<"]">>

\* returns [stmts, err]
print_action(action, locations, unreachable, gather, loop, has_invalid, locals, cleanup) ==
  LET failed == action = None /\ (IF gather THEN Len(locals) # 2
                                  ELSE has_invalid)
      act == IF action # None THEN action
             ELSE IF failed THEN None
             ELSE DefaultAction(gather, locals)
      loc == IF locations THEN <<Simple("var_tok_last"), Simple("var_end")>> ELSE <<>>
  IN [err |-> failed,
      stmts |-> loc \o (IF loop
                        THEN <<Stmt("push_children", act, <<>>, <<>>), Simple("set_mark")>>
                        ELSE add_return(act, cleanup))]

IsCutItem(item) == item.item # 0 /\ Arena[item.item].kind = "Cut"

\* what visit_Alt works out before it visits the items
AltInfo(alt, gather) ==
  LET has_invalid == InvalidAlt(alt)
      action0 == IF alt.action = None /\ ~gather /\ has_invalid
                 THEN <<"UNREACHABLE">> ELSE alt.action
      action1 == Replace(action0, "LOCATIONS", location_formatting)
  IN [has_cut |-> \E i \in DOMAIN alt.items : IsCutItem(alt.items[i]),
      has_invalid |-> has_invalid,
      locations |-> "LOCATIONS" \in Range(action0),
      unreachable |-> "UNREACHABLE" \in Range(action1),
      action |-> Replace(action1, "UNREACHABLE", unreachable_formatting)]

\* the statements of an alternative without "(:_reset self mark)"
AltStmts_noreset(info, loop, gather, cleanup, acc) ==
  LET conds == (IF info.has_invalid THEN <<Cond("call_invalid", None, None, FALSE)>>
                ELSE <<>>) \o acc.conds
      pa == print_action(info.action, info.locations, info.unreachable, gather, loop,
                         info.has_invalid, acc.locals, cleanup)
  IN [st |-> IF pa.err THEN [acc.st EXCEPT !.err = TRUE] ELSE acc.st,
      stmts |-> (IF info.has_cut THEN <<Simple("set_cut_false")>> ELSE <<>>)
                  \o <<Stmt(IF loop THEN "while" ELSE "when", None, conds, pa.stmts)>>
                  \o (IF info.has_cut THEN <<Simple("when_cut_return_nil")>> ELSE <<>>)]

\* the statements visit_Alt prints, acc being the result of visiting the items
AltStmts(info, loop, gather, cleanup, acc) ==
  LET conds == (IF info.has_invalid THEN <<Cond("call_invalid", None, None, FALSE)>>
                ELSE <<>>) \o acc.conds
      pa == print_action(info.action, info.locations, info.unreachable, gather, loop,
                         info.has_invalid, acc.locals, cleanup)
  IN [st |-> IF pa.err THEN [acc.st EXCEPT !.err = TRUE] ELSE acc.st,
      stmts |-> (IF info.has_cut THEN <<Simple("set_cut_false")>> ELSE <<>>)
                  \o <<Stmt(IF loop THEN "while" ELSE "when", None, conds, pa.stmts)>>
                  \o <<Simple("reset")>>
                  \o (IF info.has_cut THEN <<Simple("when_cut_return_nil")>> ELSE <<>>)]

\* returns [st, stmts]
visit_Alt(alt, loop, gather, st) ==
  AltStmts(AltInfo(alt, gather), loop, gather, st.cleanup,
           VisitItems(alt.items, AltInfo(alt, gather).unreachable, gather,
                      [st |-> st, locals |-> <<>>, conds |-> <<>>]))

\* the statements of one more alternative follow those printed so far
AfterAlt(acc, r) == [st |-> r.st, stmts |-> acc.stmts \o r.stmts]

\* JanetParserGenerator.visit_Rhs: the alternatives in order
RECURSIVE VisitAlts(_, _, _, _)
VisitAlts(alts, loop, gather, acc) ==
  IF alts = <<>> THEN acc
  ELSE VisitAlts(Tail(alts), loop, gather,
                 AfterAlt(acc, visit_Alt(Head(alts), loop, gather, acc.st)))

RECURSIVE alts_uses_locations(_)
alts_uses_locations(alts) ==
  \E i \in DOMAIN alts :
     \/ "LOCATIONS" \in Range(alts[i].action)
     \/ \E j \in DOMAIN alts[i].items :
          LET it == alts[i].items[j] IN
          /\ it.item # 0
          /\ Arena[it.item].kind = "Group"
          /\ alts_uses_locations(Arena[Arena[it.item].node].alts)

\* Rule.flatten
flatten(rule) ==
  IF /\ ~is_loop(rule)
     /\ Len(rule.alts) = 1
     /\ Len(rule.alts[1].items) = 1
     /\ rule.alts[1].items[1].item # 0
     /\ Arena[rule.alts[1].items[1].item].kind = "Group"
  THEN Arena[Arena[rule.alts[1].items[1].item].node].alts
  ELSE rule.alts

\* the decoration with the leader test inverted
Decorators_swapped(rule) ==
  IF rule.left_recursive
  THEN IF rule.leader THEN <<"@logger">> ELSE <<"memoize_left_rec">>
  ELSE <<"@memoize">>

Decorators(rule) ==
  IF rule.left_recursive
  THEN IF rule.leader THEN <<"memoize_left_rec">> ELSE <<"@logger">>
  ELSE <<"@memoize">>

\* what visit_Rule prints before the alternatives
Prelude(rule) ==
  (IF Last(rule.name) = "without_invalid"
   THEN <<Simple("def_prev_call_invalid"), Simple("set_call_invalid_false")>> ELSE <<>>)
    \o <<Simple("var_mark")>>
    \o (IF alts_uses_locations(rule.alts)
        THEN <<Simple("var_tok"), Simple("var_start")>> ELSE <<>>)
    \o (IF is_loop(rule) THEN <<Simple("def_children")>> ELSE <<>>)

\* the function of a rule, r being the result of visiting its alternatives;
\* the cleanup statement pushed for a without_invalid rule is popped
EmitRule(rule, r) ==
  LET loop == is_loop(rule)
      wi == Last(rule.name) = "without_invalid"
      decorators == Decorators(rule)
      fn == [name |-> rule.name,
             definition_type |-> IF decorators # <<>> THEN "decorated-defn" ELSE "defn",
             decorators |-> decorators,
             body |-> Prelude(rule) \o r.stmts
                        \o add_return(IF loop THEN <<"children">> ELSE <<"None">>,
                                      r.st.cleanup)]
  IN [r.st EXCEPT !.err = @ \/ (loop /\ Len(flatten(rule)) # 1),
                  !.out = Append(@, fn),
                  !.cleanup = IF wi THEN SubSeq(@, 1, Len(@) - 1) ELSE @]

\* returns the state with the emitted function appended to out
visit_Rule(rule, st) ==
  EmitRule(rule,
           VisitAlts(flatten(rule), is_loop(rule), is_gather(rule),
                     [st |-> IF Last(rule.name) = "without_invalid"
                             THEN [st EXCEPT !.cleanup = Append(@, RestoreStmt)] ELSE st,
                      stmts |-> <<>>]))

\* ------------------------------------------------------------------- state
VARIABLES
  backend,       \* the builder chosen from BUILDERS_BY_GENERATOR_NAME
  skip_actions,  \* BuilderConfig.skip_actions
  oldfile,       \* what the output file held before the build (history)
  outfile,       \* what the output file holds
  raised,        \* the exception build_generator ended with, if any
  bpc,           \* position in Builder.build_generator
  grammar,       \* the authored rules, in declaration order (read only)
  gen,           \* the generator object: todo, counter, call maker fields, output
  snapshot,      \* list(self.todo.items()) of the running for loop
  tables,        \* the KEYWORDS and SOFT_KEYWORDS tuples as written
  pc,            \* position in generate
  code,          \* an emitted function under execution, with its rule
  run,           \* the state of that execution
  log            \* history of the conditions evaluated: alternative, index, outcome

bldvars == <<backend, skip_actions, oldfile, raised, bpc>>
genvars == <<grammar, gen, snapshot, tables, pc>>
runvars == <<code, run, log>>
vars == <<backend, skip_actions, oldfile, outfile, raised, bpc,
          grammar, gen, snapshot, tables, pc, code, run, log>>

\* left_recursive / leader as the analysis may set them
Flags == {<<FALSE, FALSE>>, <<TRUE, FALSE>>, <<TRUE, TRUE>>}

WithFlags(rule, f) == [rule EXCEPT !.left_recursive = f[1], !.leader = f[2]]

\* grammars: up to MaxRules distinct rules of the pool, in any order, any flags
Grammars ==
  UNION {{[i \in 1..n |-> WithFlags(Pool[sel[i]], fl[i])] :
            sel \in {q \in [1..n -> DOMAIN Pool] : \A i, j \in 1..n : i # j => q[i] # q[j]},
            fl \in [1..n -> Flags]} : n \in 1..MaxRules}

\* grammars of one rule
SmallGrammars == {<<WithFlags(Pool[i], f)>> : i \in DOMAIN Pool, f \in Flags}

NoFile == <<<<"no such file">>>>
OldText == <<<<"text of an earlier build">>>>
NoCode == [fn |-> [name |-> None, definition_type |-> "", decorators |-> <<>>, body |-> <<>>],
           rule |-> Rule(None, <<>>, 0)]
NoRun == [ip |-> 0, ci |-> 0, pos |-> 0, entry |-> 0, mark |-> 0, cut |-> "unset",
          call_invalid |-> "unset", prev |-> "unset", children |-> <<>>, ret |-> "idle"]
NoTables == [KEYWORDS |-> <<>>, SOFT_KEYWORDS |-> <<>>]

\* ------------------------------------------------- Builder.build_generator
\* the state in which nothing has been built yet
InitBuild ==
  /\ backend \in {"python", "janet"}
  /\ skip_actions \in BOOLEAN
  /\ oldfile \in {NoFile, OldText}
  /\ outfile = oldfile
  /\ raised = "none"
  /\ bpc = "start"
  /\ grammar \in SmallGrammars
  /\ gen = InitSt(<<>>)
  /\ snapshot = <<>>
  /\ tables = NoTables
  /\ pc = "header"
  /\ code = NoCode /\ run = NoRun /\ log = <<>>

\* with open(self.output_file, "w") as file
OpenOutput ==
  /\ bpc = "start"
  /\ outfile' = <<>>
  /\ bpc' = "opened"
  /\ UNCHANGED <<backend, skip_actions, oldfile, raised, genvars, runvars>>

\* _create_generator of a builder that does not look at skip_actions
CreateGenerator_nocheck ==
  /\ bpc = "opened"
  /\ gen' = InitSt(grammar) /\ bpc' = "generate" /\ raised' = raised
  /\ UNCHANGED <<backend, skip_actions, oldfile, outfile, grammar, snapshot, tables, pc,
                 runvars>>

\* PythonBuilder._create_generator / JanetBuilder._create_generator
CreateGenerator ==
  /\ bpc = "opened"
  /\ IF skip_actions
     THEN /\ raised' = "NotImplementedError"
          /\ bpc' = "raised"
          /\ gen' = gen
     ELSE /\ gen' = InitSt(grammar)
          /\ bpc' = "generate"
          /\ raised' = raised
  /\ UNCHANGED <<backend, skip_actions, oldfile, outfile, grammar, snapshot, tables, pc,
                 runvars>>

\* PythonParserGenerator.generate, as one write
PyGenerate ==
  /\ bpc = "generate" /\ backend = "python"
  /\ outfile' = <<<<"python parser">>>>
  /\ bpc' = "returned"
  /\ UNCHANGED <<backend, skip_actions, oldfile, raised, genvars, runvars>>

\* gen.generate has ended: the file is closed and gen returned, or the
\* exception leaves build_generator
BuildReturn ==
  /\ bpc = "generate" /\ backend = "janet"
  /\ pc \in {"done", "failed"}
  /\ bpc' = IF pc = "done" THEN "returned" ELSE "raised"
  /\ raised' = IF pc = "done" THEN raised ELSE "AssertionError"
  /\ UNCHANGED <<backend, skip_actions, oldfile, outfile, genvars, runvars>>

\* ---------------------------------------------------------------- generate
\* the state right after the Janet generator has been constructed
InitGen ==
  /\ backend = "janet"
  /\ skip_actions = FALSE
  /\ oldfile = NoFile
  /\ outfile = <<>>
  /\ raised = "none"
  /\ bpc = "generate"
  /\ grammar \in Grammars
  /\ gen = InitSt(grammar)
  /\ snapshot = <<>>
  /\ tables = NoTables
  /\ pc = "header"
  /\ code = NoCode /\ run = NoRun /\ log = <<>>

InGenerate == bpc = "generate" /\ backend = "janet"

\* header, subheader, "(defparser"
Header ==
  /\ InGenerate
  /\ pc = "header"
  /\ outfile' = <<<<"header">>, <<"defparser">>>>
  /\ pc' = "while"
  /\ UNCHANGED <<bldvars, grammar, gen, snapshot, tables, runvars>>

RECURSIVE Reverse(_)
Reverse(q) == IF q = <<>> THEN <<>> ELSE Append(Reverse(Tail(q)), Head(q))

\* the pass taken over the worklist in reverse
WhileTodo_reversed ==
  /\ InGenerate
  /\ pc = "while"
  /\ gen.todo # <<>>
  /\ snapshot' = Reverse(gen.todo)
  /\ pc' = "for"
  /\ UNCHANGED <<bldvars, outfile, grammar, gen, tables, runvars>>

\* while self.todo: ... list(self.todo.items())
WhileTodo ==
  /\ InGenerate
  /\ pc = "while"
  /\ gen.todo # <<>>
  /\ snapshot' = gen.todo
  /\ pc' = "for"
  /\ UNCHANGED <<bldvars, outfile, grammar, gen, tables, runvars>>

\* a single pass over the worklist: the loop is left whatever todo holds
WhileExit_single_pass ==
  /\ InGenerate
  /\ pc = "while"
  /\ outfile # <<<<"header">>, <<"defparser">>>>
  /\ pc' = "tables"
  /\ UNCHANGED <<bldvars, outfile, grammar, gen, snapshot, tables, runvars>>

WhileExit ==
  /\ InGenerate
  /\ pc = "while"
  /\ gen.todo = <<>>
  /\ pc' = "tables"
  /\ UNCHANGED <<bldvars, outfile, grammar, gen, snapshot, tables, runvars>>

\* del self.todo[rulename]
DelTodo(todo, name) == SelectSeq(todo, LAMBDA r : r.name # name)

\* one iteration of the for loop: del self.todo[rulename]; self.visit(rule)
ForBody ==
  /\ InGenerate
  /\ pc = "for"
  /\ snapshot # <<>>
  /\ gen' = visit_Rule(Head(snapshot), [gen EXCEPT !.todo = DelTodo(@, Head(snapshot).name)])
  /\ outfile' = IF gen'.err THEN outfile ELSE Append(outfile, Head(snapshot).name)
  /\ pc' = IF gen'.err THEN "failed" ELSE "for"
  /\ snapshot' = Tail(snapshot)
  /\ UNCHANGED <<bldvars, grammar, tables, runvars>>

ForEnd ==
  /\ InGenerate
  /\ pc = "for"
  /\ snapshot = <<>>
  /\ pc' = "while"
  /\ UNCHANGED <<bldvars, outfile, grammar, gen, snapshot, tables, runvars>>

\* the two tables and the trailer
Tables ==
  /\ InGenerate
  /\ pc = "tables"
  /\ tables' = [KEYWORDS |-> Sorted(gen.keywords),
                SOFT_KEYWORDS |-> Sorted(gen.soft_keywords)]
  /\ outfile' = outfile \o <<<<"KEYWORDS">>, <<"SOFT_KEYWORDS">>, <<"trailer">>>>
  /\ pc' = "done"
  /\ UNCHANGED <<bldvars, grammar, gen, snapshot, runvars>>

NextGen == Header \/ WhileTodo \/ WhileExit \/ ForBody \/ ForEnd \/ Tables

Spec == InitGen /\ [][NextGen]_vars

NextBuild ==
  \/ OpenOutput \/ CreateGenerator \/ PyGenerate \/ BuildReturn
  \/ Header \/ WhileTodo \/ WhileExit \/ ForBody \/ ForEnd \/ Tables

SpecBuild == InitBuild /\ [][NextBuild]_vars

\* --------------------------------------------- running an emitted function
\* The emitted function is read with the structure the generator prints it
\* in (see Stmt): conditions of an "(and" are evaluated in order and stop at
\* the first that fails, "(var name call)" assigns, "(return v)" leaves the
\* function.  What a call of another rule or of the tokenizer yields is not
\* fixed by the generator: a condition succeeds or fails, and a success
\* consumes zero tokens or one.

\* the generator constructed on a grammar of one rule, nothing run yet
InitRun ==
  /\ backend = "janet"
  /\ skip_actions = FALSE
  /\ oldfile = NoFile
  /\ outfile = <<>>
  /\ raised = "none"
  /\ bpc = "generate"
  /\ grammar \in SmallGrammars
  /\ gen = InitSt(grammar)
  /\ snapshot = <<>>
  /\ tables = NoTables
  /\ pc = "header"
  /\ code = NoCode /\ run = NoRun /\ log = <<>>

\* a function of the finished output is called at some position, with the
\* parser's call_invalid_rules flag set or not
StartRun ==
  /\ pc = "done"
  /\ run.ret = "idle"
  /\ \E i \in DOMAIN gen.out :
       code' = [fn |-> gen.out[i],
                rule |-> gen.enq[CHOOSE j \in DOMAIN gen.enq : gen.enq[j].name = gen.out[i].name]]
  /\ \E p \in 0..1, civ \in {"true", "false"} :
       run' = [NoRun EXCEPT !.ip = 1, !.ci = 1, !.pos = p, !.entry = p,
                            !.call_invalid = civ, !.ret = "running"]
  /\ UNCHANGED <<bldvars, outfile, genvars, log>>

Running == run.ret = "running" /\ run.ip \in DOMAIN code.fn.body
Cur == code.fn.body[run.ip]

\* the alternative a "when"/"while" statement at index ip was printed for
AltIndex(ip) ==
  Cardinality({i \in 1..ip : code.fn.body[i].op \in {"when", "while"}})

\* completed iterations of the loop
Iters == Len(run.children)

\* a statement that is neither a condition list nor a return
ExecSimple ==
  /\ Running
  /\ Cur.op \in {"def_prev_call_invalid", "set_call_invalid_false", "var_mark", "var_tok",
                 "var_start", "def_children", "set_cut_false", "reset", "cleanup"}
  /\ run' = [(CASE Cur.op = "def_prev_call_invalid" -> [run EXCEPT !.prev = run.call_invalid]
               [] Cur.op = "set_call_invalid_false" -> [run EXCEPT !.call_invalid = "false"]
               [] Cur.op = "var_mark" -> [run EXCEPT !.mark = run.pos]
               [] Cur.op = "def_children" -> [run EXCEPT !.children = <<>>]
               [] Cur.op = "set_cut_false" -> [run EXCEPT !.cut = "false"]
               [] Cur.op = "reset" -> [run EXCEPT !.pos = run.mark]
               [] Cur.op = "cleanup" -> [run EXCEPT !.call_invalid = run.prev]
               [] OTHER -> run)
             EXCEPT !.ip = run.ip + 1]
  /\ UNCHANGED <<bldvars, outfile, genvars, code, log>>

\* one condition of "(when (and " or "(while (and "
EvalCond ==
  /\ Running
  /\ Cur.op \in {"when", "while"}
  /\ run.ci <= Len(Cur.conds)
  /\ LET c == Cur.conds[run.ci] IN
     \E ok \in BOOLEAN, adv \in 0..1 :
       /\ c.kind = "call_invalid" => ok = (run.call_invalid = "true") /\ adv = 0
       /\ (c.kind = "item" /\ c.call = <<"true">>) => ok /\ adv = 0
       /\ ok => run.pos + adv <= MaxPos
       /\ ~ok => adv = 0
       /\ (Cur.op = "while" /\ Iters >= MaxIter) => ~ok
       /\ log' = Append(log, [alt |-> AltIndex(run.ip), idx |-> run.ci, ok |-> ok,
                              pos |-> run.pos, cut |-> run.cut])
       /\ run' = IF ok
                 THEN [run EXCEPT !.ci = run.ci + 1, !.pos = run.pos + adv,
                                  !.cut = IF c.name = <<"cut">> THEN "true" ELSE run.cut]
                 ELSE [run EXCEPT !.ci = 1, !.ip = run.ip + 1]
  /\ UNCHANGED <<bldvars, outfile, genvars, code>>

\* the block of a "when"/"while" whose conditions all held
RECURSIVE ExecBody(_, _)
ExecBody(body, r) ==
  IF body = <<>> \/ r.ret # "running" THEN r
  ELSE LET b == Head(body) IN
       ExecBody(Tail(body),
         CASE b.op = "cleanup" -> [r EXCEPT !.call_invalid = r.prev]
           [] b.op = "return" -> [r EXCEPT !.ret = "value"]
           [] b.op = "push_children" -> [r EXCEPT !.children = Append(@, r.pos)]
           [] b.op = "set_mark" -> [r EXCEPT !.mark = r.pos]
           [] OTHER -> r)

RunBody ==
  /\ Running
  /\ Cur.op \in {"when", "while"}
  /\ run.ci > Len(Cur.conds)
  /\ LET r == ExecBody(Cur.body, run) IN
     run' = IF r.ret # "running" THEN r
            ELSE IF Cur.op = "while" THEN [r EXCEPT !.ci = 1]
            ELSE [r EXCEPT !.ci = 1, !.ip = r.ip + 1]
  /\ UNCHANGED <<bldvars, outfile, genvars, code, log>>

\* "(when cut (return nil))"
CutCheck ==
  /\ Running
  /\ Cur.op = "when_cut_return_nil"
  /\ run' = IF run.cut = "true" THEN [run EXCEPT !.ret = "nil"]
            ELSE [run EXCEPT !.ip = run.ip + 1]
  /\ UNCHANGED <<bldvars, outfile, genvars, code, log>>

\* the "(return children)" or "(return None)" that ends the function
FinalReturn ==
  /\ Running
  /\ Cur.op = "return"
  /\ run' = [run EXCEPT !.ret = IF Cur.text = <<"children">> THEN "children" ELSE "None"]
  /\ UNCHANGED <<bldvars, outfile, genvars, code, log>>

NextRun ==
  \/ Header \/ WhileTodo \/ WhileExit \/ ForBody \/ ForEnd \/ Tables
  \/ StartRun \/ ExecSimple \/ EvalCond \/ RunBody \/ CutCheck \/ FinalReturn

SpecRun == InitRun /\ [][NextRun]_vars

\* ------------------------------------------------------------------ claims
EmittedNames == [i \in DOMAIN gen.out |-> gen.out[i].name]
EnqNames == [i \in DOMAIN gen.enq |-> gen.enq[i].name]
NoDup(q) == \A i, j \in DOMAIN q : q[i] = q[j] => i = j
Count(q, x) == Cardinality({i \in DOMAIN q : q[i] = x})
IsPrefix(a, b) == Len(a) <= Len(b) /\ a = SubSeq(b, 1, Len(a))

\* the call texts of the conditions of an emitted function
CallsOf(fn) ==
  UNION {{fn.body[i].conds[j].call : j \in DOMAIN fn.body[i].conds} : i \in DOMAIN fn.body}

\* C1: when generate has returned, every rule that ever entered the worklist
\* (the authored rules and every synthetic rule created during the run) has
\* been emitted exactly once, nothing else has been emitted, and no grammar
\* node has been given more than one synthetic rule.
C1_EachRuleEmittedOnce ==
  pc = "done" =>
    /\ \A i \in DOMAIN grammar : Count(EmittedNames, grammar[i].name) = 1
    /\ \A n \in Range(EnqNames) : Count(EmittedNames, n) = 1
    /\ Range(EmittedNames) \subseteq Range(EnqNames)
    /\ NoDup(gen.made)

\* a run in which one synthetic rule is called from two emitted functions
C1_Witness ==
  /\ pc = "done"
  /\ \E i, j \in DOMAIN gen.out :
       /\ i # j
       /\ \E id \in DOMAIN gen.cache :
            /\ id \in Range(gen.made)
            /\ gen.cache[id].call \in CallsOf(gen.out[i]) \cap CallsOf(gen.out[j])

\* work left: every node not yet given a synthetic rule may still enqueue two
\* rules, and every rule in the worklist has still to be emitted
WorkLeft == 2 * Cardinality(NodeIds \ Range(gen.made)) + Len(gen.todo)

\* steps left before the next rule is emitted or generate ends
PcRank ==
  CASE pc = "header" -> 3
    [] pc = "while" -> 2
    [] pc = "for" -> IF snapshot = <<>> THEN 3 ELSE 1
    [] pc = "tables" -> 1
    [] OTHER -> 0

Variant == 4 * WorkLeft + PcRank

\* C2: the worklist loop terminates: every step of generate lowers a natural
\* number (so no run is infinite), every position before the end is one of
\* those that have a step, and a rule of the running pass is still in todo; the
\* loop is left only with an empty worklist, so the tables are written after
\* every rule enqueued during the run has been emitted; no node enqueues a
\* synthetic rule twice.
C2_WorklistDrains ==
  /\ [][Variant' < Variant /\ Variant' >= 0]_vars
  /\ [](pc \in {"header", "while", "for", "tables", "done", "failed"})
  /\ [](pc = "for" /\ snapshot # <<>> => Head(snapshot) \in Range(gen.todo))
  /\ [](pc \in {"tables", "done"} =>
          /\ gen.todo = <<>>
          /\ snapshot = <<>>
          /\ Range(EnqNames) \subseteq Range(EmittedNames))
  /\ [](NoDup(gen.made))

\* a finished run in which a rule was enqueued while a synthetic rule was emitted
C2_Witness ==
  /\ pc = "done"
  /\ \E i \in DOMAIN gen.out :
       /\ gen.out[i].name[1] = "_loop0_"
       /\ \E id \in Range(gen.made) : gen.cache[id].call \in CallsOf(gen.out[i])

\* left_recursive and leader of the rule an emitted function was made from
FlagsOf(name) ==
  LET i == CHOOSE i \in DOMAIN gen.enq : gen.enq[i].name = name
  IN <<gen.enq[i].left_recursive, gen.enq[i].leader>>

\* C4: every emitted function carries exactly one decoration, chosen by the
\* rule's flags: memoize_left_rec for a left-recursive leader, the logger
\* alone for a left-recursive non-leader, memoize otherwise; it is always
\* emitted as a decorated, callable definition.
C4_OneDecoration ==
  \A i \in DOMAIN gen.out :
    LET fn == gen.out[i] f == FlagsOf(fn.name) IN
    /\ Len(fn.decorators) = 1
    /\ fn.definition_type = "decorated-defn"
    /\ (f[1] /\ f[2]) => fn.decorators = <<"memoize_left_rec">>
    /\ (f[1] /\ ~f[2]) => fn.decorators = <<"@logger">>
    /\ ~f[1] => fn.decorators = <<"@memoize">>

\* one output with a function of each decoration class
C4_Witness ==
  /\ pc = "done"
  /\ \A d \in {"memoize_left_rec", "@logger", "@memoize"} :
       \E i \in DOMAIN gen.out : gen.out[i].decorators = <<d>>

\* C5: the exact-keyword set and the soft-keyword set are disjoint, and the
\* two tables written are sorted, without duplicates, and hold identifiers only.
C5_KeywordPartition ==
  /\ gen.keywords \cap gen.soft_keywords = {}
  /\ \A t \in {tables.KEYWORDS, tables.SOFT_KEYWORDS} :
       /\ \A i \in 1..(Len(t) - 1) : StrLess(t[i], t[i + 1])
       /\ \A i \in DOMAIN t : IsIdentifier(t[i])

EndsWithOneSep(c) == Len(c) >= 2 /\ c[Len(c)] = "," /\ c[Len(c) - 1] # ","
NoSepAtEnd(c) == c # <<>> /\ c[Len(c)] # ","

\* C7: in every state of the call maker, the first visit of a repeat or gather
\* node and its (cached) second visit return a call text that ends with no
\* separator for Repeat1 and Gather and with exactly one for Repeat0; an
\* optional around any of them, and every Opt node of the grammar, ends with
\* exactly one separator.
C7_SeparatorConvention ==
  \A id \in NodeIds :
    LET k == Arena[id].kind
        r1 == CallVisit(id, gen)
        r2 == CallVisit(id, r1.st)
    IN /\ k \in {"Repeat1", "Gather"} =>
            /\ NoSepAtEnd(r1.call) /\ NoSepAtEnd(r2.call)
            /\ EndsWithOneSep(visit_Opt(r1).call) /\ EndsWithOneSep(visit_Opt(r2).call)
       /\ k = "Repeat0" =>
            /\ EndsWithOneSep(r1.call) /\ EndsWithOneSep(r2.call)
            /\ EndsWithOneSep(visit_Opt(r1).call) /\ EndsWithOneSep(visit_Opt(r2).call)
            /\ r2.st.counter = r1.st.counter
       /\ k = "Opt" => EndsWithOneSep(r1.call) /\ EndsWithOneSep(r2.call)

\* the call maker holds cached calls of a Repeat0, a Repeat1 and a Gather node,
\* and an optional around the Repeat0 has been printed
C7_Witness ==
  /\ \A k \in {"Repeat0", "Repeat1", "Gather"} :
       \E id \in DOMAIN gen.cache : Arena[id].kind = k
  /\ \E i \in DOMAIN gen.out : \E c \in CallsOf(gen.out[i]) :
       \E id \in DOMAIN gen.cache : Arena[id].kind = "Repeat0" /\ c = gen.cache[id].call

\* the rule names among the sections written
PrintedRules == SelectSeq(outfile, LAMBDA x : x \in Range(EnqNames))

\* C9: the functions are written in the order in which their rules entered
\* the worklist: the authored rules in declaration order first, then the
\* synthetic rules in creation order; the tables come after the last rule.
C9_EmissionOrder ==
  /\ IsPrefix(PrintedRules, EnqNames)
  /\ IsPrefix([i \in DOMAIN grammar |-> grammar[i].name], EnqNames)
  /\ <<"KEYWORDS">> \in Range(outfile) =>
       outfile = <<<<"header">>, <<"defparser">>>> \o EnqNames
                   \o <<<<"KEYWORDS">>, <<"SOFT_KEYWORDS">>, <<"trailer">>>>

\* a finished run of two authored rules where the first one created synthetic
\* rules, which are written after the second authored rule
C9_Witness ==
  /\ pc = "done"
  /\ Len(grammar) >= 2
  /\ Len(gen.enq) > Len(grammar)
  /\ \E id \in Range(gen.made) : gen.cache[id].call \in CallsOf(gen.out[1])

\* the rule an emitted function was made from
RuleOf(name) == gen.enq[CHOOSE i \in DOMAIN gen.enq : gen.enq[i].name = name]

\* the "when"/"while" statements of a function, one per alternative
WhenStmts(fn) == SelectSeq(fn.body, LAMBDA x : x.op \in {"when", "while"})

\* the value an alternative returns or pushes
ResultOf(w) ==
  w.body[CHOOSE i \in DOMAIN w.body : w.body[i].op \in {"return", "push_children"}].text

UnnamedLiteral(item) ==
  item.name = None /\ item.item # 0 /\ Arena[item.item].kind = "StringLeaf"

\* the names bound by the conditions, in order (without those of unnamed
\* literal-string items when skipLiterals)
RECURSIVE BoundNames(_, _, _)
BoundNames(conds, items, skipLiterals) ==
  IF conds = <<>> THEN <<>>
  ELSE (IF /\ Head(conds).name # None
           /\ Head(conds).name # <<"cut">>
           /\ ~(skipLiterals /\ UnnamedLiteral(Head(items)))
        THEN <<Head(conds).name>> ELSE <<>>)
         \o BoundNames(Tail(conds), Tail(items), skipLiterals)

ExpectedResult(names) ==
  IF Len(names) = 1 THEN names[1]
  ELSE <<"[">> \o Join(<<", ">>, names) \o <<"]">>

\* the alternatives C6 is about: no action, not a gather, no invalid leaf
DefaultAlts(fn) ==
  LET r == RuleOf(fn.name) IN
  IF is_gather(r) THEN {}
  ELSE {k \in DOMAIN flatten(r) :
          flatten(r)[k].action = None /\ ~InvalidAlt(flatten(r)[k])}

\* C6 (as stated): the default result is built from the bound names in order,
\* and an unnamed literal-string item contributes nothing to it, so that
\* start: NAME '+' NUMBER returns [name, number].
C6_LiteralExcluded ==
  \A i \in DOMAIN gen.out :
    LET fn == gen.out[i] IN
    \A k \in DefaultAlts(fn) :
      LET w == WhenStmts(fn)[k] alt == flatten(RuleOf(fn.name))[k] IN
      /\ ResultOf(w) = ExpectedResult(BoundNames(w.conds, alt.items, TRUE))
      /\ fn.name = <<"start">> => ResultOf(w) = <<"[", "name", ", ", "number", "]">>

\* C6 (amended): the default result is the single bound name when exactly one
\* condition binds a name, otherwise the list of all bound names in binding
\* order; conditions without a name (lookaheads) and the cut are left out; an
\* unnamed literal-string item is bound, under the name literal, and is part
\* of the result, so that start: NAME '+' NUMBER returns [name, literal, number].
C6_DefaultResult ==
  \A i \in DOMAIN gen.out :
    LET fn == gen.out[i] IN
    \A k \in DefaultAlts(fn) :
      LET w == WhenStmts(fn)[k] alt == flatten(RuleOf(fn.name))[k] IN
      /\ ResultOf(w) = ExpectedResult(BoundNames(w.conds, alt.items, FALSE))
      /\ \A j \in DOMAIN alt.items :
           UnnamedLiteral(alt.items[j]) => w.conds[j].name[1] = "literal"
      /\ fn.name = <<"start">> =>
           ResultOf(w) = <<"[", "name", ", ", "literal", ", ", "number", "]">>

\* the function of start: NAME '+' NUMBER has been emitted, and so has a
\* function whose alternative binds exactly one name
C6_Witness ==
  /\ \E i \in DOMAIN gen.out : gen.out[i].name = <<"start">>
  /\ \E i \in DOMAIN gen.out : \E k \in DefaultAlts(gen.out[i]) :
       Len(BoundNames(WhenStmts(gen.out[i])[k].conds,
                      flatten(RuleOf(gen.out[i].name))[k].items, FALSE)) = 1

\* C8 (as stated): with skip_actions set, build_generator fails with the
\* unsupported-configuration error at generator construction for both
\* backends, generate is never entered, and the output file holds what it
\* held before the build was attempted.
C8_FileUntouched ==
  skip_actions =>
    /\ bpc \in {"start", "opened", "raised"}
    /\ pc = "header" /\ gen = InitSt(<<>>)
    /\ bpc = "raised" => raised = "NotImplementedError"
    /\ outfile = oldfile

\* C8 (amended): with skip_actions set, build_generator fails with the
\* unsupported-configuration error at generator construction for both
\* backends; generate is never entered and nothing is written, but the output
\* file has been opened for writing first, so after the failure it exists and
\* is empty, whatever it held before.
C8_FailsAtConstruction ==
  skip_actions =>
    /\ bpc \in {"start", "opened", "raised"}
    /\ pc = "header" /\ gen = InitSt(<<>>)
    /\ bpc = "raised" => raised = "NotImplementedError"
    /\ bpc = "start" => outfile = oldfile
    /\ bpc \in {"opened", "raised"} => outfile = <<>>

\* the build of a Janet parser with skip_actions has failed over an earlier output
C8_Witness ==
  /\ skip_actions /\ backend = "janet"
  /\ bpc = "raised" /\ raised = "NotImplementedError"
  /\ oldfile = OldText

\* the alternatives the running function was printed from
RAlts == flatten(code.rule)
HasCut(k) == \E j \in DOMAIN RAlts[k].items : IsCutItem(RAlts[k].items[j])
\* the index of the cut among the conditions of alternative k
CutIdx(k) ==
  (CHOOSE j \in DOMAIN RAlts[k].items : IsCutItem(RAlts[k].items[j]))
    + (IF InvalidAlt(RAlts[k]) THEN 1 ELSE 0)
Started == run.ret # "idle"
Ended == run.ret \notin {"idle", "running"}
Failures == {e \in DOMAIN log : ~log[e].ok}

\* C3: for every alternative with a cut (whatever its action): the cut flag
\* is false when the alternative starts; after a failure before the cut the
\* next alternative is attempted; after a failure past the cut no later
\* alternative is attempted and the rule returns failure at once.
C3_CutCommits ==
  Started =>
    \A k \in DOMAIN RAlts : HasCut(k) =>
      /\ \A e \in DOMAIN log : (log[e].alt = k /\ log[e].idx = 1) => log[e].cut = "false"
      /\ \A e \in Failures :
           (log[e].alt = k /\ log[e].idx < CutIdx(k) /\ k < Len(RAlts) /\ Ended) =>
              \E e2 \in DOMAIN log : e2 > e /\ log[e2].alt = k + 1
      /\ \A e \in Failures :
           (log[e].alt = k /\ log[e].idx > CutIdx(k)) =>
              /\ e = Len(log)
              /\ Ended => run.ret = "nil"

\* a call in which an item after the cut of a non-final alternative failed
C3_Witness ==
  /\ Ended
  /\ \E e \in Failures :
       LET k == log[e].alt IN HasCut(k) /\ k < Len(RAlts) /\ log[e].idx > CutIdx(k)

\* what C10 says of every alternative but the return of failure
AltsInOrder ==
  /\ \A e \in DOMAIN log :
       /\ e = 1 => log[e].alt = 1 /\ log[e].idx = 1
       /\ (e > 1 /\ log[e - 1].ok /\ log[e].idx # 1) =>
            log[e].alt = log[e - 1].alt /\ log[e].idx = log[e - 1].idx + 1
       /\ (e > 1 /\ ~log[e - 1].ok) => log[e].alt = log[e - 1].alt + 1 /\ log[e].idx = 1
       /\ log[e].idx = 1 => log[e].pos = run.entry
  /\ run.ret = "value" =>
       LET n == Len(Cur.conds) IN
       /\ Len(log) >= n
       /\ \A j \in 1..n :
            LET ev == log[Len(log) - n + j] IN
            ev.alt = AltIndex(run.ip) /\ ev.idx = j /\ ev.ok

\* where the last successful iteration of a loop ended
LastEnd == IF run.children = <<>> THEN run.entry ELSE Last(run.children)

LoopShape ==
  /\ \A e \in DOMAIN log : log[e].alt = 1
  /\ \A e \in Failures : e = Len(log)
  /\ (Running /\ Cur.op = "while" /\ run.ci = 1) => run.pos = LastEnd /\ run.mark = LastEnd
  /\ Ended => /\ run.ret = "children"
              /\ Failures # {}
              /\ run.pos = LastEnd

\* C10 (as stated): in a non-loop function the conditions of an alternative
\* are evaluated in order up to the first failure, the position is the entry
\* mark whenever an alternative starts, a value is returned only after all
\* conditions of the alternative held, and failure is returned only after the
\* last alternative has failed; in a loop the alternative is retried until an
\* iteration fails and the position on return is the end of the last
\* successful iteration.
C10_FailureOnlyAfterLastAlt ==
  Started =>
    IF is_loop(code.rule) THEN LoopShape
    ELSE /\ AltsInOrder
         /\ run.ret \in {"None", "nil"} =>
              \E e \in Failures : log[e].alt = Len(RAlts)

\* C10 (amended): as stated, except that failure is returned after the last
\* alternative has failed or, earlier, after an alternative that contains a
\* cut has failed with its cut flag set.
C10_ConjunctionAndChoice ==
  Started =>
    IF is_loop(code.rule) THEN LoopShape
    ELSE /\ AltsInOrder
         /\ run.ret = "None" => \E e \in Failures : log[e].alt = Len(RAlts)
         /\ run.ret = "nil" =>
              /\ log # <<>> /\ ~log[Len(log)].ok
              /\ HasCut(log[Len(log)].alt)
              /\ run.cut = "true"

\* a call in which an alternative failed after consuming input and the next
\* alternative was attempted
C10_Witness ==
  /\ Ended
  /\ ~is_loop(code.rule)
  /\ \E e \in Failures : log[e].pos > run.entry /\ e < Len(log)

\* the nonterminals, terminals and literals an arena node is built from
RECURSIVE Leaves(_)
AltLeaves(alt) ==
  UNION {IF alt.items[i].item = 0 THEN {alt.items[i].leaf} ELSE Leaves(alt.items[i].item) :
           i \in DOMAIN alt.items}

Leaves(id) ==
  LET node == Arena[id] k == node.kind IN
  CASE k \in {"NameLeaf", "StringLeaf"} -> {node.value}
    [] k = "Rhs" -> UNION {AltLeaves(node.alts[i]) : i \in DOMAIN node.alts}
    [] k = "Cut" -> {}
    [] k = "Gather" -> Leaves(node.sep) \cup Leaves(node.node)
    [] OTHER -> Leaves(node.node)

EveryLeafInvalid(alt) ==
  AltLeaves(alt) # {} /\ \A v \in AltLeaves(alt) : v[1] = "invalid"

SomeLeafInvalid(alt) == \E v \in AltLeaves(alt) : v[1] = "invalid"

\* the result of alternative k of an emitted function is the unreachable marker
HasMarker(fn, k) == ResultOf(WhenStmts(fn)[k]) = unreachable_formatting

\* the alternatives C11 is about: no action, not in a gather
ActionlessAlts(fn) ==
  IF is_gather(RuleOf(fn.name)) THEN {}
  ELSE {k \in DOMAIN flatten(RuleOf(fn.name)) : flatten(RuleOf(fn.name))[k].action = None}

\* C11: a non-gather alternative without an action returns the unreachable
\* marker exactly when every leaf of the alternative is an invalid-prefixed
\* nonterminal; with at least one other leaf it returns the default result
\* built from its bindings.
C11_MarkerIffEveryLeafInvalid ==
  \A i \in DOMAIN gen.out : \A k \in ActionlessAlts(gen.out[i]) :
    HasMarker(gen.out[i], k) <=> EveryLeafInvalid(flatten(RuleOf(gen.out[i].name))[k])

\* one half of that statement alone: every leaf invalid-prefixed gives the marker
EveryLeafInvalidGetsMarker ==
  \A i \in DOMAIN gen.out : \A k \in ActionlessAlts(gen.out[i]) :
    EveryLeafInvalid(flatten(RuleOf(gen.out[i].name))[k]) => HasMarker(gen.out[i], k)

\* the other half alone: the marker only where every leaf is invalid-prefixed
MarkerOnlyIfEveryLeafInvalid ==
  \A i \in DOMAIN gen.out : \A k \in ActionlessAlts(gen.out[i]) :
    HasMarker(gen.out[i], k) => EveryLeafInvalid(flatten(RuleOf(gen.out[i].name))[k])

\* what the generator does: the marker where InvalidNodeVisitor answers true
MarkerIffInvalidVisitor ==
  \A i \in DOMAIN gen.out : \A k \in ActionlessAlts(gen.out[i]) :
    HasMarker(gen.out[i], k) <=> InvalidAlt(flatten(RuleOf(gen.out[i].name))[k])

\* the running function was printed for a rule named ...without_invalid
Scoped == Started /\ Last(code.rule.name) = "without_invalid"

\* the statements of an emitted function, those of the alternatives' blocks included
AllStmts(fn) ==
  Range(fn.body) \cup UNION {Range(fn.body[i].body) : i \in DOMAIN fn.body}

\* the generator side of C12: between two calls of visit_Rule the cleanup
\* stack is empty, the function of a without_invalid rule starts by saving
\* and disabling the flag, and no other function holds a restoration
StackBalanced ==
  /\ gen.cleanup = <<>>
  /\ \A i \in DOMAIN gen.out :
       LET fn == gen.out[i] IN
       IF Last(fn.name) = "without_invalid"
       THEN /\ fn.body[1].op = "def_prev_call_invalid"
            /\ fn.body[2].op = "set_call_invalid_false"
       ELSE \A x \in AllStmts(fn) :
              x.op \notin {"cleanup", "def_prev_call_invalid", "set_call_invalid_false"}

\* the flag is saved and stays disabled up to the restoration before a return
SavedAndDisabled ==
  (Scoped /\ run.ip >= 3) =>
     /\ run.prev \in {"true", "false"}
     /\ (Running /\ Cur.op # "return") => run.call_invalid = "false"

\* the flag holds its saved value when the function has left by one of exits
RestoredOn(exits) ==
  (Scoped /\ run.ret \in exits) => run.call_invalid = run.prev

\* C12: the function of a without_invalid rule saves and disables
\* call_invalid_rules on entry, and on every exit (an alternative's return,
\* the final failure return, the early return after a cut) the flag holds the
\* saved value again; the cleanup stack is as deep after visit_Rule as before
\* it, and no restoration is printed into the function of another rule.
C12_RestoredOnEveryExit ==
  /\ StackBalanced
  /\ SavedAndDisabled
  /\ RestoredOn({"value", "None", "children", "nil"})

\* the same without the early return after a cut
RestoredOnOtherExits ==
  /\ StackBalanced
  /\ SavedAndDisabled
  /\ RestoredOn({"value", "None", "children"})

====
